---- MODULE Spec2Model ----
(***************************************************************************)
(* Time-stepping drivers of mbayk/fenics:                                  *)
(*   2d/heat_control/heat.py          heat equation with boundary feedback *)
(*   2d/magnetic_induction/bdf3.py    induction equation, CN/BDF2/BDF3     *)
(*   2d/ns_cylinder/ns.py             NSProblem.run_picard / run_bdf_ext   *)
(*                                                                         *)
(* Fields are symbolic: a Field is <<n, j>>, the result of the j-th linear *)
(* solve made for time level n (<<0,0>> is the initial condition, <<n,0>>  *)
(* the extrapolated Picard guess of level n, <<-1,0>> a fresh Function).   *)
(* Time is counted in units of dt (exact arithmetic).                      *)
(***************************************************************************)
EXTENDS Integers, Sequences, FiniteSets, TLC

\* ---------------------------------------------------------------- bounds
MaxTf == 6        \* heat.py: largest final time -time, in units of dt
MaxNp == 2        \* bdf3.py: largest mesh resolution -N
MaxSave == 3      \* bdf3.py: largest small save interval -s
MaxIt == 101      \* ns.py: cap on the number of time steps explored
NDofs == 4        \* heat.py: V.dim(), the length of u0.vector().array()
NBinds == 2       \* heat.py: len(binds), the boundary degrees of freedom

\* ------------------------------------------------------ program constants
DefaultSave == 1000000     \* bdf3.py -s default
PicardTf == 10000          \* run_picard: Tf/dt = 10.0/0.001
ExtTf == 5000              \* run_bdf_ext: Tf/dt = 50.0/0.01
PicardCflMax == 10         \* run_picard: if cfl > 10.0
ExtCflMax == 100           \* run_bdf_ext: if cfl > 100.0
PicardSave == 100          \* run_picard: if it%100 == 0
ExtSave == 50              \* run_bdf_ext: if it%50 == 0
PicardIters == 4           \* run_picard: for i in range(4)

Drivers == {"heat", "bdf3", "picard", "bdf_ext"}
CflValues == {5, 12, 150}  \* values the CFL estimate may take
ResValues == {0, 1}        \* 0: residual small, 1: residual large

VARIABLES driver, pc, exit, it, t, Tf, with_control, itsave,
          fld, uc, form, A, reuse, solves,
          log, flushed, closed, opened, gain, stdout, snap, cfl, i, res_norm

vars == <<driver, pc, exit, it, t, Tf, with_control, itsave,
          fld, uc, form, A, reuse, solves,
          log, flushed, closed, opened, gain, stdout, snap, cfl, i, res_norm>>

\* ---------------------------------------------------------------- fields
ZeroField == <<-1, 0>>
InitialField == <<0, 0>>

\* Function(V): a new zero Function
Function == ZeroField

\* solve(...) / solver.solve(x, b): the solve made for level n overwrites
\* x; it is one more solve than the iterate x held for that level.
Solved(x, n) == IF x[1] = n THEN <<n, x[2] + 1>> ELSE <<n, 1>>

\* up2.vector()[:] = 2.0*up1.vector() - up0.vector()
Extrapolate(n) == <<n, 0>>

\* ----------------------------------------------------------------- forms
\* A form is den*d/dt-combination = space-combination, with integer weights:
\*   time[1]*u + SUM_j time[j+1]*fld[slots[j]]  (all divided by den*dt)
\*   space[1]: weight of the spatial operator at the unknown u,
\*   space[2]: weight of the spatial operator at the newest old level,
\*   lhsDeps: the Functions the bilinear form (the matrix) depends on,
\*   conv: the Functions the convective term is frozen at (ns.py).
\* heat.py:55  F1 = idt*(u - u0)*v*dx + inner(grad(u),grad(v))*dx - ...
HeatF1 ==
  [name |-> "F1", time |-> <<1, -1>>, slots |-> <<"u0">>, den |-> 1,
   space |-> <<1, 0>>, lhsDeps |-> {},
   conv |-> <<>>]

\* heat.py:69  F2 = idt*(1.5*u - 2.0*u1 + 0.5*u0)*v*dx + ...
HeatF2 ==
  [name |-> "F2", time |-> <<3, -4, 1>>, slots |-> <<"u1", "u0">>, den |-> 2,
   space |-> <<2, 0>>, lhsDeps |-> {},
   conv |-> <<>>]

\* bdf3.py:66-67  Bt = 0.5*(B + B0); F1 = inner(B-B0,v)*dx + dt*BForm(Bt,...)
Bdf3F1 ==
  [name |-> "F1", time |-> <<2, -2>>, slots |-> <<"B0">>, den |-> 2,
   space |-> <<1, 1>>, lhsDeps |-> {},
   conv |-> <<>>]

\* bdf3.py:74  F2 = inner(B-(4.0/3.0)*B1+(1.0/3.0)*B0,v)*dx + (2.0/3.0)*dt*BForm(B,...)
Bdf3F2 ==
  [name |-> "F2", time |-> <<3, -4, 1>>, slots |-> <<"B1", "B0">>, den |-> 3,
   space |-> <<2, 0>>, lhsDeps |-> {},
   conv |-> <<>>]

Bdf3FStuck ==
  [name |-> "F", time |-> <<3, -4, 1>>, slots |-> <<"B1", "B0">>, den |-> 3,
   space |-> <<2, 0>>, lhsDeps |-> {},
   conv |-> <<>>]

\* bdf3.py:80  F = inner(B-(18.0/11.0)*B2+(9.0/11.0)*B1-(2.0/11.0)*B0,v)*dx
\*                 + (6.0/11.0)*dt*BForm(B,...)
Bdf3F ==
  [name |-> "F", time |-> <<11, -18, 9, -2>>, slots |-> <<"B2", "B1", "B0">>,
   den |-> 11, space |-> <<6, 0>>, lhsDeps |-> {},
   conv |-> <<>>]

\* ns.py:337  F1 = idt*inner(u - u0, v)*dx + inner(grad(us)*us, v)*dx + ...
PicardF1 ==
  [name |-> "F1", time |-> <<1, -1>>, slots |-> <<"up0">>, den |-> 1,
   space |-> <<1, 0>>, lhsDeps |-> {},
   conv |-> <<"up0">>]

PicardF2Sign ==
  [name |-> "F2", time |-> <<3, -4, -1>>, slots |-> <<"up1", "up0">>,
   den |-> 2, space |-> <<2, 0>>, lhsDeps |-> {},
   conv |-> <<"up2">>]

\* ns.py:353  F2 = idt*inner(1.5*u - 2.0*u1 + 0.5*u0, v)*dx
\*                 + inner(grad(u2)*u2, v)*dx + ...
PicardF2 ==
  [name |-> "F2", time |-> <<3, -4, 1>>, slots |-> <<"up1", "up0">>,
   den |-> 2, space |-> <<2, 0>>, lhsDeps |-> {},
   conv |-> <<"up2">>]

\* ns.py:430  F1 = idt*inner(u - u0, v)*dx + inner(grad(u)*u0, v)*dx + ...
ExtF1 ==
  [name |-> "F1", time |-> <<1, -1>>, slots |-> <<"up0">>, den |-> 1,
   space |-> <<1, 0>>, lhsDeps |-> {"up0"},
   conv |-> <<"up0">>]

\* ns.py:447-448  uext = 2.0*u1 - u0; F2 = idt*inner(1.5*u - 2.0*u1 + 0.5*u0, v)*dx
\*                 + inner(grad(u)*uext, v)*dx + ...
ExtF2 ==
  [name |-> "F2", time |-> <<3, -4, 1>>, slots |-> <<"up1", "up0">>,
   den |-> 2, space |-> <<2, 0>>, lhsDeps |-> {"up1", "up0"},
   conv |-> <<"up1", "up0">>]

\* PETScMatrix(): an empty matrix
NoMatrix ==
  [form |-> [name |-> "none", time |-> <<>>, slots |-> <<>>, den |-> 1,
             space |-> <<0, 0>>, lhsDeps |-> {}, conv |-> <<>>],
   deps |-> <<>>]

\* assemble(a): the matrix of a form, frozen at the current values of the
\* Functions its bilinear part depends on.
DepSeq(f) ==
  IF f.lhsDeps = {} THEN <<>>
  ELSE IF f.lhsDeps = {"up0"} THEN <<"up0">> ELSE <<"up1", "up0">>

Assemble(f, fl) ==
  [form |-> f, deps |-> [k \in 1..Len(DepSeq(f)) |-> fl[DepSeq(f)[k]]]]

\* what one linear solve for level n reads and returns: the form of the
\* right-hand side, the history levels it reads, the boundary data uc, the
\* matrix mat, and the matrix the form has at the time of the solve
SolveRec(n, f, fl, ucv, mat, out) ==
  [step |-> n, form |-> f,
   levels |-> [k \in 1..Len(f.slots) |-> fl[f.slots[k]]],
   conv |-> [k \in 1..Len(f.conv) |-> fl[f.conv[k]]],
   uc |-> ucv, A |-> mat, now |-> Assemble(f, fl), out |-> out]

\* ------------------------------------------------------------------ files
\* one line of log.txt (it, t, energy of x, norm of the control c) or of
\* force.dat (it, t, lift and drag of x)
Record(n, tt, x, c) == [it |-> n, t |-> tt, field |-> x, control |-> c]

\* file.write without flush: the line is in the buffer; the buffer may or
\* may not spill to disk.
WriteBuffered(rec) ==
  /\ log' = Append(log, rec)
  /\ flushed' \in {flushed, Len(log) + 1}

\* ffile.write(force); ffile.flush()
WriteFlush(rec) ==
  /\ log' = Append(log, rec)
  /\ flushed' = Len(log) + 1

\* ------------------------------------------------------------------- gain
\* the shape <<rows, columns>> of gain['K'] as loaded from gain.mat;
\* loadmat does not look at the shape
NoGain == <<0, 0>>

GainShapes == {<<r, c>> : r \in {NBinds, NBinds + 1}, c \in {NDofs, NBinds}}

\* np.dot(K, x) with x of length n: the columns of K must be n
DotFits(K, n) == K[2] = n

\* uc.vector()[binds] = y: y must have one value per index of binds
AssignFits(K, nb) == K[1] = nb

\* heat.py:59,75  uc.vector()[binds] = -np.dot(gain['K'], u.vector().array())
\* runs without an exception
GainFits(K) == DotFits(K, NDofs) /\ AssignFits(K, NBinds)

\* ------------------------------------------------------------------- Init
HeatInit ==
  /\ driver = "heat"
  /\ Tf \in 0..MaxTf
  /\ with_control \in BOOLEAN
  /\ itsave = 0
  \* heat.py:25-27  gain = sio.loadmat('gain.mat'), only with -with_control
  /\ gain \in (IF with_control THEN GainShapes ELSE {NoGain})
  \* heat.py:37-43  u0 = interpolate(eigvec,V); u1, u2 = Function(V)
  /\ fld = [u0 |-> InitialField, u1 |-> Function, u2 |-> Function]

\* bdf3.py:55-59  T = 0.5*pi; dt = 0.5/np; N = int(T/dt) = int(pi*np)
StepsBdf3(np) == (314159 * np) \div 100000

Bdf3Init ==
  /\ driver = "bdf3"
  /\ \E np \in 1..MaxNp : Tf = StepsBdf3(np)
  /\ with_control = FALSE
  /\ gain = NoGain
  /\ itsave \in (1..MaxSave) \cup {DefaultSave}
  \* bdf3.py:37-39,48  B1, B2, B3 = Function(X); B0 = interpolate(g, X)
  /\ fld = [B0 |-> InitialField, B1 |-> Function, B2 |-> Function,
            B3 |-> Function]

NsInit ==
  /\ driver \in {"picard", "bdf_ext"}
  /\ Tf = IF driver = "picard" THEN PicardTf ELSE ExtTf
  /\ with_control = FALSE
  /\ gain = NoGain
  /\ itsave = IF driver = "picard" THEN PicardSave ELSE ExtSave
  \* ns.py:305-307,325  up0, up1, up2 = Function(W); steady.xml >> up0
  /\ fld = [up0 |-> InitialField, up1 |-> Function, up2 |-> Function]

FirstForm(d) ==
  IF d = "heat" THEN HeatF1
  ELSE IF d = "bdf3" THEN Bdf3F1
  ELSE IF d = "picard" THEN PicardF1 ELSE ExtF1

Init ==
  /\ \/ HeatInit
     \/ Bdf3Init
     \/ NsInit
  /\ pc = "start"
  /\ exit = "none"
  /\ it = 0
  /\ t = 0
  /\ uc = ZeroField
  /\ form = FirstForm(driver)
  /\ A = NoMatrix
  /\ reuse = FALSE
  /\ solves = <<>>
  /\ log = <<>>
  /\ flushed = 0
  /\ closed = FALSE
  /\ opened = FALSE
  /\ stdout = <<>>
  /\ snap = <<>>
  /\ cfl = 0
  /\ i = 0
  /\ res_norm = 0

\* ---------------------------------------------------------------- heat.py
\* heat.py:47-52  open log.txt, write the t=0 record
HeatStart ==
  /\ driver = "heat" /\ pc = "start"
  /\ opened' = TRUE
  /\ WriteBuffered(Record(it, t, fld.u0, ZeroField))
  /\ pc' = "bdf1"
  /\ UNCHANGED <<driver, exit, it, t, Tf, with_control, itsave, fld, uc,
                 form, A, reuse, solves, closed, gain, stdout, snap, cfl, i,
                 res_norm>>

\* np.dot(gain['K'], x.vector().array()): the actuation computed from x
Control(x) == <<"-K", x>>

\* heat.py:59  uc.vector()[binds] = -np.dot(gain['K'], u0.vector().array())
HeatBdf1Control(fl) == Control(fl.u0)

\* heat.py:58-59  the first use of gain['K'] raises when its shape does not
\* fit; the exception is not caught and ends the run, log.txt being open
\* with the t=0 record written
HeatBdf1Fail ==
  /\ driver = "heat" /\ pc = "bdf1"
  /\ with_control /\ ~GainFits(gain)
  /\ pc' = "failed" /\ exit' = "error"
  /\ flushed' \in {flushed, Len(log)}
  /\ UNCHANGED <<driver, it, t, Tf, with_control, itsave, fld, uc, form, A,
                 reuse, solves, log, closed, opened, gain, stdout, snap, cfl,
                 i, res_norm>>

\* heat.py:54-71  BDF1 step, then F2 is defined
HeatBdf1 ==
  /\ driver = "heat" /\ pc = "bdf1"
  /\ with_control => GainFits(gain)
  /\ LET uc1 == IF with_control THEN HeatBdf1Control(fld) ELSE uc
         mat == Assemble(form, fld)
         out == Solved(fld.u1, it + 1)
     IN /\ uc' = uc1
        /\ solves' = Append(solves, SolveRec(it + 1, form, fld, uc1, mat, out))
        /\ fld' = [fld EXCEPT !.u1 = out]
        /\ WriteBuffered(Record(it + 1, t + 1, out, uc1))
  /\ t' = t + 1 /\ it' = it + 1
  /\ stdout' = Append(stdout, <<"it", it + 1>>)
  /\ form' = HeatF2
  /\ pc' = "loop"
  /\ UNCHANGED <<driver, exit, Tf, with_control, itsave, A, reuse, closed, opened, gain,
                 snap, cfl, i, res_norm>>

\* u0.assign(u1); u1.assign(u2), in this order
HeatRotateSwapped(fl) ==
  LET a1 == [fl EXCEPT !.u1 = fl.u2] IN [a1 EXCEPT !.u0 = a1.u1]

HeatRotate(fl) ==
  LET a1 == [fl EXCEPT !.u0 = fl.u1] IN [a1 EXCEPT !.u1 = a1.u2]

\* heat.py:75  uc.vector()[binds] = -np.dot(gain['K'], u1.vector().array())
HeatLoopControlStale(fl) == Control(fl.u0)

HeatLoopControl(fl) == Control(fl.u1)

\* heat.py:73  while t < Tf
HeatLoopTestLe(tt, tf) == tt <= tf

HeatLoopTest(tt, tf) == tt < tf

\* heat.py:73-83  one pass of the BDF2 loop
HeatLoop ==
  /\ driver = "heat" /\ pc = "loop"
  /\ HeatLoopTest(t, Tf)
  /\ LET uc1 == IF with_control THEN HeatLoopControl(fld) ELSE uc
         mat == Assemble(form, fld)
         out == Solved(fld.u2, it + 1)
         f2 == [fld EXCEPT !.u2 = out]
     IN /\ uc' = uc1
        /\ solves' = Append(solves, SolveRec(it + 1, form, fld, uc1, mat, out))
        /\ fld' = HeatRotate(f2)
        /\ WriteBuffered(Record(it + 1, t + 1, out, uc1))
  /\ t' = t + 1 /\ it' = it + 1
  /\ stdout' = Append(stdout, <<"it", it + 1>>)
  /\ UNCHANGED <<driver, pc, exit, Tf, with_control, itsave, form, A, reuse,
                 closed, opened, gain, snap, cfl, i, res_norm>>

\* heat.py:73,85  the loop ends, flog.close()
HeatClose ==
  /\ driver = "heat" /\ pc = "loop"
  /\ ~HeatLoopTest(t, Tf)
  /\ flushed' = Len(log)
  /\ closed' = TRUE
  /\ UNCHANGED <<opened, gain>>
  /\ pc' = "done" /\ exit' = "finished"
  /\ UNCHANGED <<driver, it, t, Tf, with_control, itsave, fld, uc, form, A,
                 reuse, solves, log, stdout, snap, cfl, i, res_norm>>

\* ---------------------------------------------------------------- bdf3.py
\* bdf3.py:50-62  B3.assign(B0); fsol << B3
Bdf3Start ==
  /\ driver = "bdf3" /\ pc = "start"
  /\ fld' = [fld EXCEPT !.B3 = fld.B0]
  /\ snap' = Append(snap, fld.B0)
  /\ pc' = "bdf1"
  /\ UNCHANGED <<driver, exit, it, t, Tf, with_control, itsave, uc, form, A,
                 reuse, solves, log, flushed, closed, opened, gain, stdout, cfl, i,
                 res_norm>>

\* bdf3.py:64-70  first time step, solve(a1==L1, B1)
Bdf3Step1 ==
  /\ driver = "bdf3" /\ pc = "bdf1"
  /\ LET out == Solved(fld.B1, it + 1)
     IN /\ solves' = Append(solves, SolveRec(it + 1, form, fld, uc, Assemble(form, fld), out))
        /\ fld' = [fld EXCEPT !.B1 = out]
  /\ it' = it + 1 /\ t' = t + 1
  /\ form' = Bdf3F2
  /\ pc' = "bdf2"
  /\ UNCHANGED <<driver, exit, Tf, with_control, itsave, uc, A, reuse, log,
                 flushed, closed, opened, gain, stdout, snap, cfl, i, res_norm>>

\* bdf3.py:72-84  second time step, solve(a2==L2, B2); then F is assembled
\* into A and the LUSolver keeps its factorization
Bdf3Step2 ==
  /\ driver = "bdf3" /\ pc = "bdf2"
  /\ LET out == Solved(fld.B2, it + 1)
         f2 == [fld EXCEPT !.B2 = out]
     IN /\ solves' = Append(solves, SolveRec(it + 1, form, fld, uc, Assemble(form, fld), out))
        /\ fld' = f2
        /\ A' = Assemble(Bdf3F, f2)
  /\ it' = it + 1 /\ t' = t + 1
  /\ form' = Bdf3F
  /\ reuse' = TRUE
  /\ pc' = "loop"
  /\ UNCHANGED <<driver, exit, Tf, with_control, itsave, uc, log, flushed,
                 closed, opened, gain, stdout, snap, cfl, i, res_norm>>

\* B0.assign(B1); B1.assign(B2); B2.assign(B3), in this order
Bdf3RotateSwapped(fl) ==
  LET a1 == [fl EXCEPT !.B2 = fl.B3]
      a2 == [a1 EXCEPT !.B1 = a1.B2]
  IN [a2 EXCEPT !.B0 = a2.B1]

Bdf3Rotate(fl) ==
  LET a1 == [fl EXCEPT !.B0 = fl.B1]
      a2 == [a1 EXCEPT !.B1 = a1.B2]
  IN [a2 EXCEPT !.B2 = a2.B3]

\* bdf3.py:86-96  one pass of the BDF3 loop
Bdf3Loop ==
  /\ driver = "bdf3" /\ pc = "loop"
  /\ t < Tf
  /\ LET out == Solved(fld.B3, it + 1)
         f3 == [fld EXCEPT !.B3 = out]
     IN /\ solves' = Append(solves, SolveRec(it + 1, form, fld, uc, A, out))
        /\ fld' = Bdf3Rotate(f3)
        /\ snap' = IF (it + 1) % itsave = 0 THEN Append(snap, out) ELSE snap
  /\ it' = it + 1 /\ t' = t + 1
  /\ stdout' = Append(stdout, <<"it", it + 1>>)
  /\ UNCHANGED <<driver, pc, exit, Tf, with_control, itsave, uc, form, A,
                 reuse, log, flushed, closed, opened, gain, cfl, i, res_norm>>

\* bdf3.py:86,98-108  the loop ends, the error norms are computed
Bdf3Finish ==
  /\ driver = "bdf3" /\ pc = "loop"
  /\ ~(t < Tf)
  /\ pc' = "done" /\ exit' = "finished"
  /\ UNCHANGED <<driver, it, t, Tf, with_control, itsave, fld, uc, form, A,
                 reuse, solves, log, flushed, closed, opened, gain, stdout, snap, cfl,
                 i, res_norm>>

\* ------------------------------------------------------------------ ns.py
\* up0.assign(up1); up1.assign(up2), in this order
NsRotate(fl) ==
  LET a1 == [fl EXCEPT !.up0 = fl.up1] IN [a1 EXCEPT !.up1 = a1.up2]

\* ns.py:304-331  run_picard set-up
PicardStart ==
  /\ driver = "picard" /\ pc = "start"
  /\ pc' = "bdf1"
  /\ UNCHANGED <<driver, exit, it, t, Tf, with_control, itsave, fld, uc,
                 form, A, reuse, solves, log, flushed, closed, opened, gain, stdout,
                 snap, cfl, i, res_norm>>

\* ns.py:333-364  BDF1 step with its own matrix, then the BDF2 matrix is
\* assembled and its LUSolver keeps the factorization
PicardBdf1 ==
  /\ driver = "picard" /\ pc = "bdf1"
  /\ LET mat == Assemble(form, fld)
         out == Solved(fld.up1, it + 1)
         f1 == [fld EXCEPT !.up1 = out]
     IN /\ solves' = Append(solves, SolveRec(it + 1, form, fld, uc, mat, out))
        /\ fld' = f1
        /\ A' = Assemble(PicardF2, f1)
  /\ t' = t + 1 /\ it' = it + 1
  /\ form' = PicardF2
  /\ reuse' = TRUE
  /\ pc' = "loop"
  /\ UNCHANGED <<driver, exit, Tf, with_control, itsave, uc, log, flushed,
                 closed, opened, gain, stdout, snap, cfl, i, res_norm>>

\* ns.py:366-373  loop test, CFL estimate from u1, extrapolated guess
PicardBegin ==
  /\ driver = "picard" /\ pc = "loop"
  /\ t < Tf /\ it < MaxIt
  /\ cfl' \in CflValues
  /\ fld' = [fld EXCEPT !.up2 = Extrapolate(it + 1)]
  /\ i' = 0
  /\ pc' = "picard"
  /\ UNCHANGED <<driver, exit, it, t, Tf, with_control, itsave, uc, form, A,
                 reuse, solves, log, flushed, closed, opened, gain, stdout, snap,
                 res_norm>>

\* ns.py:374  for i in range(4)
PicardContinueTol(k, r) == k < PicardIters /\ (k = 0 \/ r # 0)

PicardContinue(k, r) == k < PicardIters

\* ns.py:377-380  res = A * up2.vector() - b is computed and printed before
\* solver.solve(up2.vector(), b): it is the residual of the iterate up2
\* holds before the solve, not of the one the solve returns
PicardResidualAfter(before, after) == after

PicardResidualOf(before, after) == before

\* ns.py:374-380  one Picard iteration: assemble b, residual of the current
\* up2, print it, solve into up2
PicardIter ==
  /\ driver = "picard" /\ pc = "picard"
  /\ PicardContinue(i, res_norm)
  /\ res_norm' \in ResValues
  /\ LET out == Solved(fld.up2, it + 1)
     IN /\ stdout' = Append(stdout, <<"res", i, PicardResidualOf(fld.up2, out)>>)
        /\ solves' = Append(solves, SolveRec(it + 1, form, fld, uc, A, out))
        /\ fld' = [fld EXCEPT !.up2 = out]
  /\ i' = i + 1
  /\ UNCHANGED <<driver, pc, exit, it, t, Tf, with_control, itsave, uc, form,
                 A, reuse, log, flushed, closed, opened, gain, snap, cfl>>

\* ns.py:382-391  rotation, counters, CFL abort, snapshot
PicardEnd ==
  /\ driver = "picard" /\ pc = "picard"
  /\ ~PicardContinue(i, res_norm)
  /\ fld' = NsRotate(fld)
  /\ t' = t + 1 /\ it' = it + 1
  /\ IF cfl > PicardCflMax
     THEN /\ stdout' = stdout \o <<<<"it", it + 1>>, <<"cfl", it + 1>>>>
          /\ pc' = "done" /\ exit' = "cfl_abort"
          /\ snap' = snap
     ELSE /\ stdout' = Append(stdout, <<"it", it + 1>>)
          /\ pc' = "loop" /\ exit' = exit
          /\ snap' = IF (it + 1) % PicardSave = 0
                     THEN Append(snap, fld.up2) ELSE snap
  /\ UNCHANGED <<driver, Tf, with_control, itsave, uc, form, A, reuse,
                 solves, log, flushed, closed, opened, gain, cfl, i, res_norm>>

\* ns.py:394-427  run_bdf_ext set-up, force.dat opened, record of t=0
ExtStart ==
  /\ driver = "bdf_ext" /\ pc = "start"
  /\ opened' = TRUE
  /\ WriteFlush(Record(it, t, fld.up0, ZeroField))
  /\ pc' = "bdf1"
  /\ UNCHANGED <<driver, exit, it, t, Tf, with_control, itsave, fld, uc,
                 form, A, reuse, solves, closed, gain, stdout, snap, cfl, i,
                 res_norm>>

\* ns.py:429-460  BDF1 step, then F2 and an empty PETScMatrix
ExtBdf1 ==
  /\ driver = "bdf_ext" /\ pc = "bdf1"
  /\ LET mat == Assemble(form, fld)
         out == Solved(fld.up1, it + 1)
     IN /\ solves' = Append(solves, SolveRec(it + 1, form, fld, uc, mat, out))
        /\ fld' = [fld EXCEPT !.up1 = out]
  /\ t' = t + 1 /\ it' = it + 1
  /\ form' = ExtF2
  /\ A' = NoMatrix
  /\ pc' = "loop"
  /\ UNCHANGED <<driver, exit, Tf, with_control, itsave, uc, reuse, log,
                 flushed, closed, opened, gain, stdout, snap, cfl, i, res_norm>>

\* ns.py:468  assemble(a, tensor=A) in every pass
ExtLoopMatrixOnce(Aold, f, fl) ==
  IF Aold = NoMatrix THEN Assemble(f, fl) ELSE Aold

ExtLoopMatrix(Aold, f, fl) == Assemble(f, fl)

\* ns.py:462-486  one pass of the BDF2 loop with extrapolated velocity
ExtLoop ==
  /\ driver = "bdf_ext" /\ pc = "loop"
  /\ t < Tf /\ it < MaxIt
  /\ cfl' \in CflValues
  /\ LET mat == ExtLoopMatrix(A, form, fld)
         out == Solved(fld.up2, it + 1)
         f2 == [fld EXCEPT !.up2 = out]
     IN /\ A' = mat
        /\ solves' = Append(solves, SolveRec(it + 1, form, fld, uc, mat, out))
        /\ fld' = NsRotate(f2)
        /\ snap' = IF ~(cfl' > ExtCflMax) /\ (it + 1) % ExtSave = 0
                   THEN Append(snap, out) ELSE snap
        /\ WriteFlush(Record(it + 1, t + 1, out, ZeroField))
  /\ t' = t + 1 /\ it' = it + 1
  /\ IF cfl' > ExtCflMax
     THEN /\ stdout' = stdout \o <<<<"it", it + 1>>, <<"cfl", it + 1>>>>
          /\ pc' = "done" /\ exit' = "cfl_abort"
     ELSE /\ stdout' = Append(stdout, <<"it", it + 1>>)
          /\ pc' = "loop" /\ exit' = exit
  /\ UNCHANGED <<driver, Tf, with_control, itsave, uc, form, reuse, closed, opened, gain,
                 i, res_norm>>

Next ==
  \/ HeatStart
  \/ HeatBdf1
  \/ HeatBdf1Fail
  \/ HeatLoop
  \/ HeatClose
  \/ Bdf3Start
  \/ Bdf3Step1
  \/ Bdf3Step2
  \/ Bdf3Loop
  \/ Bdf3Finish
  \/ PicardStart
  \/ PicardBdf1
  \/ PicardBegin
  \/ PicardIter
  \/ PicardEnd
  \/ ExtStart
  \/ ExtBdf1
  \/ ExtLoop

Spec == Init /\ [][Next]_vars

\* ================================================================ claims
\* the Field accepted for time level n
Accepted(d, n) ==
  IF n = 0 THEN InitialField
  ELSE IF d = "picard" /\ n >= 2 THEN <<n, PicardIters>> ELSE <<n, 1>>

\* the standard k-step backward-differentiation formula, integer weights:
\*   SUM_j time[j]*u_{n+1-(j-1)} = space * dt * f(u_{n+1})
BDFCoef(k) ==
  IF k = 1 THEN [time |-> <<1, -1>>, space |-> 1]
  ELSE IF k = 2 THEN [time |-> <<3, -4, 1>>, space |-> 2]
  ELSE [time |-> <<11, -18, 9, -2>>, space |-> 6]

IsBDF(f, k) ==
  /\ Len(f.time) = k + 1
  /\ f.space[2] = 0
  /\ \A j \in 1..(k + 1) : f.time[j] * BDFCoef(k).space = BDFCoef(k).time[j] * f.space[1]

\* Crank-Nicolson: u - u_n = dt * (f(u) + f(u_n)) / 2
IsCN(f) ==
  /\ Len(f.time) = 2
  /\ f.time[2] = -f.time[1]
  /\ f.space[1] = f.space[2]
  /\ f.time[1] = 2 * f.space[1]

\* the per-step lines "it = ..." printed on stdout
StepLines == SelectSeq(stdout, LAMBDA l : l[1] = "it")

\* the stepIndex values of the per-step diagnostic records of a driver:
\* log.txt (heat.py), force.dat (run_bdf_ext), the printed step lines
\* (run_picard, bdf3.py)
RecordIndex ==
  IF driver \in {"heat", "bdf_ext"}
  THEN [k \in 1..Len(log) |-> log[k].it]
  ELSE [k \in 1..Len(StepLines) |-> StepLines[k][2]]

SolvesWith(k) == {n \in 1..Len(solves) : IsBDF(solves[n].form, k)}

\* C1: in the drivers that keep a diagnostics log (heat.py, run_bdf_ext),
\* once the log is open the stepIndex values in it are exactly 0..it, each
\* once and in order, and every record written is already flushed.
C1_EveryStepOneRecord ==
  (driver \in {"heat", "bdf_ext"} /\ pc # "start") =>
     /\ Len(log) = it + 1
     /\ \A k \in 1..Len(log) : log[k].it = k - 1
     /\ flushed = Len(log)

\* C2: when the CFL abort fires at step k = it, the loop has ended in the
\* controlled "done" state with exactly k diagnostic records written, the
\* last one for step k and none for step k+1.
C2_CflAbortRecords ==
  (exit = "cfl_abort") =>
     /\ pc = "done"
     /\ Len(RecordIndex) = it
     /\ RecordIndex[Len(RecordIndex)] = it
     /\ \A k \in 1..Len(RecordIndex) : RecordIndex[k] # it + 1

\* C3: a heat.py run with Tf = N*dt, N >= 1, ends after exactly N accepted
\* steps, one BDF1 solve and N-1 BDF2 solves, with N+1 records of which
\* the first is the t=0 record with control norm 0.
C3_HeatRunLength ==
  (driver = "heat" /\ pc = "done" /\ Tf >= 1) =>
     /\ exit = "finished"
     /\ it = Tf /\ t = Tf
     /\ Len(solves) = Tf
     /\ Cardinality(SolvesWith(1)) = 1
     /\ Cardinality(SolvesWith(2)) = Tf - 1
     /\ Len(log) = Tf + 1
     /\ log[1].it = 0 /\ log[1].t = 0 /\ log[1].control = ZeroField

C3_Witness ==
  driver = "heat" /\ pc = "done" /\ Tf >= 3 /\ it = Tf /\ Len(log) = Tf + 1

\* C4: with control enabled, the boundary data used by the solve of step n
\* (n >= 1) is the actuation computed from the accepted Field of step n-1,
\* it is in place for that solve and still unchanged after the step.
C4_ControlOneStepDelayed ==
  (driver = "heat" /\ with_control) =>
     /\ \A k \in 1..Len(solves) :
           solves[k].uc = Control(Accepted(driver, solves[k].step - 1))
     /\ (it >= 1) => /\ uc = Control(Accepted(driver, it - 1))
                     /\ solves[Len(solves)].step = it
                     /\ log[Len(log)].control = uc

C4_Witness ==
  /\ driver = "heat" /\ with_control /\ it >= 3
  /\ uc = Control(Accepted(driver, it - 1))

\* the scheme state is the number of history levels of the active form
Rank(f) == Len(f.slots)

SchemeOf(f) ==
  IF Rank(f) = 1 THEN "BOOTSTRAP_1"
  ELSE IF Rank(f) = 2 THEN "BOOTSTRAP_2" ELSE "STEADY_SCHEME"

\* number of levels of the steady scheme of a driver
Order(d) == IF d = "bdf3" THEN 3 ELSE 2

\* the scheme state after n accepted steps
ExpectedScheme(d, n) ==
  IF n = 0 THEN "BOOTSTRAP_1"
  ELSE IF n = 1 \/ Order(d) = 2 THEN "BOOTSTRAP_2" ELSE "STEADY_SCHEME"

\* C5: the scheme state is BOOTSTRAP_1 before the first step, BOOTSTRAP_2
\* after one step, and after two steps STEADY_SCHEME in bdf3.py and still
\* BOOTSTRAP_2 (the steady scheme) in the 2-level drivers; every solve is
\* made in the state its step count gives, and the state never moves back.
C5_SchemeStateMachine ==
  /\ [](/\ SchemeOf(form) = ExpectedScheme(driver, it)
        /\ \A k \in 1..Len(solves) :
              SchemeOf(solves[k].form) = ExpectedScheme(driver, solves[k].step - 1))
  /\ [][Rank(form') >= Rank(form)]_vars

C5_Witness ==
  /\ driver = "bdf3" /\ it >= 4 /\ SchemeOf(form) = "STEADY_SCHEME"
  /\ Len(solves) = it

\* C6 as stated: in every driver the solve of step 1 uses the BDF1 formula
\* on the single level u_0 and the solves of step 2 the BDF2 formula on
\* u_1 and u_0.
C6_BootstrapFormulas ==
  \A k \in 1..Len(solves) :
     /\ (solves[k].step = 1) =>
           /\ IsBDF(solves[k].form, 1)
           /\ solves[k].levels = <<Accepted(driver, 0)>>
     /\ (solves[k].step = 2) =>
           /\ IsBDF(solves[k].form, 2)
           /\ solves[k].levels = <<Accepted(driver, 1), Accepted(driver, 0)>>

\* C6 amended: the solve of step 1 reads the single level u_0 and uses the
\* BDF1 formula in heat.py and ns.py but the Crank-Nicolson formula in
\* bdf3.py; the solves of step 2 use the BDF2 formula on u_1 and u_0 in
\* every driver.
C6_BootstrapFormulasAmended ==
  \A k \in 1..Len(solves) :
     /\ (solves[k].step = 1) =>
           /\ IF driver = "bdf3" THEN IsCN(solves[k].form)
                                 ELSE IsBDF(solves[k].form, 1)
           /\ solves[k].levels = <<Accepted(driver, 0)>>
     /\ (solves[k].step = 2) =>
           /\ IsBDF(solves[k].form, 2)
           /\ solves[k].levels = <<Accepted(driver, 1), Accepted(driver, 0)>>

C6_Witness ==
  /\ driver = "bdf3" /\ Len(solves) >= 2
  /\ IsCN(solves[1].form) /\ IsBDF(solves[2].form, 2)

\* C7: every solve of a steady step n >= order reads exactly the accepted
\* Fields of steps n-1, ..., n-order, newest first in the order of the
\* scheme's coefficients; after each accepted step the history slots hold
\* the accepted Fields of the last order steps.
C7_RingBuffer ==
  /\ \A k \in 1..Len(solves) :
        (solves[k].step >= Order(driver)) =>
           /\ Len(solves[k].levels) = Order(driver)
           /\ \A j \in 1..Order(driver) :
                 solves[k].levels[j] = Accepted(driver, solves[k].step - j)
  /\ (pc \in {"loop", "done"} /\ it >= Order(driver) - 1) =>
        /\ Rank(form) = Order(driver)
        /\ \A j \in 1..Order(driver) :
              fld[form.slots[j]] = Accepted(driver, it + 1 - j)

C7_Witness ==
  /\ driver = "bdf3" /\ pc = "loop" /\ it >= 5
  /\ fld.B0 = Accepted(driver, it - 2)

\* the residual lines printed on stdout
ResLines == SelectSeq(stdout, LAMBDA l : l[1] = "res")

SolvesOfStep(n) == {k \in 1..Len(solves) : solves[k].step = n}

\* C8: every steady step of run_picard makes exactly 4 solves and prints
\* exactly 4 residual lines (i = 0..3) whatever the residual values are,
\* and the accepted Field is the result of the 4th solve.
C8_PicardFixedBudget ==
  (driver = "picard") =>
     /\ LET rl == ResLines IN \A k \in 1..Len(rl) : rl[k][2] = (k - 1) % 4
     /\ (pc \in {"loop", "done"} /\ it >= 2) =>
           /\ Len(ResLines) = 4 * (it - 1)
           /\ \A n \in 2..it : Cardinality(SolvesOfStep(n)) = 4
           /\ fld.up1 = <<it, 4>>
           /\ solves[Len(solves)].out = fld.up1
     /\ (pc = "picard") =>
           /\ i <= 4
           /\ Len(ResLines) = 4 * (it - 1) + i
           /\ fld.up2 = <<it + 1, i>>

C8_Witness ==
  /\ driver = "picard" /\ pc = "loop" /\ it >= 3 /\ res_norm = 1
  /\ fld.up1 = <<it, 4>>

\* C9: every solve uses the matrix of the form active for that solve, as
\* assembled from the current values of the Functions it depends on, and
\* once a factorization is kept for reuse the matrix is never changed.
C9_FactorizationCache ==
  /\ [](\A k \in 1..Len(solves) :
           /\ solves[k].A = solves[k].now
           /\ solves[k].A.form = solves[k].form
           /\ SchemeOf(solves[k].A.form) = ExpectedScheme(driver, solves[k].step - 1))
  /\ [][reuse => (A' = A /\ reuse')]_vars

C9_Witness ==
  /\ driver = "picard" /\ reuse /\ it >= 3 /\ A.form = PicardF2
  /\ solves[Len(solves)].A = A

\* C10: in the drivers that write snapshots, between steps every accepted
\* step n >= 1 whose index is a multiple of the save interval has its Field
\* in the snapshot file exactly once.
C10_PeriodicSnapshots ==
  (driver \in {"bdf3", "picard", "bdf_ext"} /\ pc # "picard") =>
     \A n \in 1..it :
        (n % itsave = 0) =>
           Cardinality({k \in 1..Len(snap) : snap[k] = Accepted(driver, n)}) = 1

\* C11: when control is enabled and the shape of the gain matrix does not
\* fit, the run has failed with log.txt never opened, no record written and
\* no time step started.
C11_GainMisconfigFatalAtStartup ==
  (driver = "heat" /\ with_control /\ ~GainFits(gain) /\ pc = "failed") =>
     /\ it = 0 /\ solves = <<>>
     /\ ~opened
     /\ log = <<>>

\* the solves of the Picard iterations, in order (the first solve of a
\* run_picard run is the BDF1 step)
PicardSolve(k) == solves[k + 1]

\* C12 as stated: the k-th residual line of run_picard is the residual of
\* the Field returned by the solve of the same Picard iteration.
C12_ResidualOfOwnSolve ==
  (driver = "picard") =>
     LET rl == ResLines
     IN \A k \in 1..Len(rl) :
           (k + 1 <= Len(solves)) => rl[k][3] = PicardSolve(k).out

\* C12 amended: in each Picard iteration the residual is computed and
\* printed before the solve; the k-th residual line is the residual of the
\* iterate the right-hand side of that iteration was assembled with, which
\* is the extrapolated guess in the first iteration of a step and the
\* result of the previous iteration's solve in the others.
C12_ResidualOfPreviousIterate ==
  (driver = "picard") =>
     LET rl == ResLines
     IN /\ Len(solves) = Len(rl) + (IF pc \in {"start", "bdf1"} THEN 0 ELSE 1)
        /\ \A k \in 1..Len(rl) :
              /\ rl[k][3] = PicardSolve(k).conv[1]
              /\ rl[k][3] =
                    IF rl[k][2] = 0 THEN Extrapolate(PicardSolve(k).step)
                    ELSE PicardSolve(k - 1).out
              /\ rl[k][3] # PicardSolve(k).out

C12_Witness ==
  /\ driver = "picard" /\ Len(ResLines) >= 5
  /\ ResLines[1][3] = Extrapolate(2)
  /\ ResLines[5][3] = Extrapolate(3)

====
